---- MODULE Spec2Model ----
(***************************************************************************)
(* Model of the two renaming tools of the repository:                      *)
(*   src/plex_converter.py  - the filename sanitizer                       *)
(*   src/create_is.py       - the metadata-driven renamer (MediaOrganizer) *)
(*                                                                         *)
(* A string is a sequence of one-character strings.  "^A" stands for the   *)
(* control character U+0001 (TLA+ has no escape for it).                   *)
(***************************************************************************)
EXTENDS Integers, Sequences, FiniteSets, TLC

VARIABLES
    input,            \* argument handed to the function under study
    output,           \* value it returned
    applied,          \* which function produced output ("none" before the call)
    tool,             \* which program runs: "plex", "organizer", "lookup", "none"
    dry_run,          \* the --dry-run flag
    fs,               \* the directory: file name -> identity of the file's content
    fs0,              \* the directory as it was when the run started
    entries,          \* plex: what rglob/iterdir yields, in order
    idx,              \* plex: number of entries the for loop has consumed
    processed_count,  \* plex: process_directory's counter
    error_count,      \* plex: process_directory's counter
    plex_pc,          \* plex: "loop", "returned"
    plex_log,         \* plex: per entry, what process_file did with it
    files,            \* organizer: the list process_directory collected
    task,             \* organizer: per collected file, the process_file call on it
    next_task,        \* organizer: next index executor.map hands to a free worker
    org_pc,           \* organizer: "collect", "pool", "crashed"
    cache,            \* organizer: self.cache, key -> result
    answered,         \* organizer: <<kind, title, year, result>> the providers returned
    failed            \* organizer: keys of the lookups that came back without result

pureVars == <<input, output, applied>>
plexVars == <<entries, idx, processed_count, error_count, plex_pc, plex_log>>
orgVars  == <<files, task, next_task, org_pc, cache, answered, failed>>
dirVars  == <<tool, dry_run, fs, fs0>>
vars == <<input, output, applied, tool, dry_run, fs, fs0, entries, idx,
          processed_count, error_count, plex_pc, plex_log, files, task,
          next_task, org_pc, cache, answered, failed>>

\* Python's None, and an int as a value that can be compared with it
None == <<>>
Some(n) == <<n>>

-----------------------------------------------------------------------------
(* Strings *)

Replace(s, set, c) == [i \in 1..Len(s) |-> IF s[i] \in set THEN c ELSE s[i]]

Remove(s, set) == SelectSeq(s, LAMBDA x : x \notin set)

\* str.strip(chars) / str.lstrip / str.rstrip
LStrip(s, set) ==
    LET keep == {i \in 1..Len(s) : s[i] \notin set}
    IN  IF keep = {} THEN <<>>
        ELSE SubSeq(s, CHOOSE i \in keep : \A j \in keep : i <= j, Len(s))

RStrip(s, set) ==
    LET keep == {i \in 1..Len(s) : s[i] \notin set}
    IN  IF keep = {} THEN <<>>
        ELSE SubSeq(s, 1, CHOOSE i \in keep : \A j \in keep : i >= j)

Strip(s, set) == RStrip(LStrip(s, set), set)

\* re.sub(r'_+', '_', s)
CollapseUnderscores(s) ==
    LET F[i \in 0..Len(s)] ==
            IF i = 0 THEN <<>>
            ELSE IF i > 1 /\ s[i] = "_" /\ s[i-1] = "_" THEN F[i-1]
            ELSE Append(F[i-1], s[i])
    IN  F[Len(s)]

RECURSIVE Flatten(_)
Flatten(ss) == IF ss = <<>> THEN <<>> ELSE Head(ss) \o Flatten(Tail(ss))

\* s is t with some characters dropped (order kept)
RECURSIVE IsSubseq(_, _)
IsSubseq(s, t) ==
    IF s = <<>> THEN TRUE
    ELSE IF t = <<>> THEN FALSE
    ELSE IF Head(s) = Head(t) THEN IsSubseq(Tail(s), Tail(t))
    ELSE IsSubseq(s, Tail(t))

Chars(s) == {s[i] : i \in 1..Len(s)}

\* Representatives of \x00-\x1F
ControlChars == {"\t", "\n", "^A"}

\* What str.strip() without argument removes
Whitespace == {" ", "\t", "\n"}

Digits == {"0", "1", "2", "3", "4", "5", "6", "7", "8", "9"}

DigitVal(c) ==
    CASE c = "0" -> 0 [] c = "1" -> 1 [] c = "2" -> 2 [] c = "3" -> 3
      [] c = "4" -> 4 [] c = "5" -> 5 [] c = "6" -> 6 [] c = "7" -> 7
      [] c = "8" -> 8 [] c = "9" -> 9

-----------------------------------------------------------------------------
(* plex_converter.py: sanitize_filename *)

invalid_chars == {"<", ">", ":", "\"", "/", "\\", "|", "?", "*"} \cup ControlChars

unnamed_file == <<"u","n","n","a","m","e","d","_","f","i","l","e">>

sanitize_filename_removing(filename) ==
    LET s1 == Remove(filename, invalid_chars)
        s2 == Strip(s1, {" ", "."})
        s3 == CollapseUnderscores(s2)
        s4 == RStrip(s3, {"_"})
    IN  IF s4 = <<>> THEN unnamed_file ELSE s4

sanitize_filename(filename) ==
    LET s1 == Replace(filename, invalid_chars, "_")
        s2 == Strip(s1, {" ", "."})
        s3 == CollapseUnderscores(s2)
        s4 == RStrip(s3, {"_"})
    IN  IF s4 = <<>> THEN unnamed_file ELSE s4

-----------------------------------------------------------------------------
(* create_is.py: MediaOrganizer.sanitize_filename, extract_title_year *)

organizer_invalid_chars == {"<", ">", ":", "\"", "/", "\\", "|", "?", "*"}

MediaOrganizer_sanitize_filename(filename) ==
    Strip(Remove(filename, organizer_invalid_chars), Whitespace)

\* pathlib: PurePath.suffix and PurePath.stem of a bare file name
LastDot(name) ==
    LET dots == {i \in 1..Len(name) : name[i] = "."}
    IN  IF dots = {} THEN 0 ELSE CHOOSE i \in dots : \A j \in dots : i >= j

HasSuffix(name) == 1 < LastDot(name) /\ LastDot(name) < Len(name)

Suffix(name) ==
    IF HasSuffix(name) THEN SubSeq(name, LastDot(name), Len(name)) ELSE <<>>

Stem(name) ==
    IF HasSuffix(name) THEN SubSeq(name, 1, LastDot(name) - 1) ELSE name

\* year_pattern = r'[\(\.\[ ](19|20)\d{2}[\)\.\] ]' matches stem[i..i+5]
YearOpen  == {"(", ".", "[", " "}
YearClose == {")", ".", "]", " "}

YearMatchAt(stem, i) ==
    /\ i >= 1
    /\ i + 5 <= Len(stem)
    /\ stem[i] \in YearOpen
    /\ <<stem[i+1], stem[i+2]>> \in {<<"1", "9">>, <<"2", "0">>}
    /\ stem[i+3] \in Digits
    /\ stem[i+4] \in Digits
    /\ stem[i+5] \in YearClose

YearValue(s, i) ==
    1000 * DigitVal(s[i+1]) + 100 * DigitVal(s[i+2])
        + 10 * DigitVal(s[i+3]) + DigitVal(s[i+4])

extract_title_year(filename) ==
    LET stem == Stem(filename)
        ms   == {i \in 1..Len(stem) : YearMatchAt(stem, i)}
    IN  IF ms # {}
        THEN LET m     == CHOOSE i \in ms : \A j \in ms : i <= j
                 title == SubSeq(stem, 1, m - 1) \o SubSeq(stem, m + 6, Len(stem))
             IN  <<Strip(Replace(title, {"."}, " "), Whitespace),
                   Some(YearValue(stem, m))>>
        ELSE <<Strip(Replace(stem, {"."}, " "), Whitespace), None>>

-----------------------------------------------------------------------------
(* Function calls on bounded inputs *)

MaxLen == 4
MaxTokens == 4

RECURSIVE StringsUpTo(_, _)
StringsUpTo(alphabet, n) ==
    IF n = 0 THEN {<<>>}
    ELSE LET shorter == StringsUpTo(alphabet, n - 1)
         IN  shorter \cup {Append(s, c) : s \in shorter, c \in alphabet}

SanAlphabet == {"a", " ", ".", "_", "?", "\t", "^A"}

ShowSeason == <<"S","h","o","w",":"," ","S","e","a","s","o","n"," ","1","?",
                ".","m","p","4">>

\* File names and titles are not empty
SanInputs == (StringsUpTo(SanAlphabet, MaxLen) \ {<<>>}) \cup {ShowSeason}

ExtractTokens ==
    { <<"a">>, <<".">>, <<" ">>,
      <<"1","9","9","9">>, <<"2","1","0","0">>,
      <<"(","2","0","0","1",")">>, <<"[","1","9","5","0","]">> }

ExtractSuffixes == { <<>>, <<".","m","k","v">> }

TheMatrix == <<"T","h","e",".","M","a","t","r","i","x",".","1","9","9","9",
               ".","m","k","v">>

\* "." is the directory itself, not a file name
ExtractInputs ==
    ({Flatten(ts) \o ext :
        ts \in UNION {[1..n -> ExtractTokens] : n \in 1..MaxTokens},
        ext \in ExtractSuffixes}
        \cup {TheMatrix}) \ {<<".">>}

IdleDirectory ==
    /\ tool = "none"
    /\ dry_run = FALSE
    /\ fs = <<>>
    /\ fs0 = <<>>
    /\ entries = <<>>
    /\ idx = 0
    /\ processed_count = 0
    /\ error_count = 0
    /\ plex_pc = "returned"
    /\ plex_log = <<>>
    /\ files = <<>>
    /\ task = <<>>
    /\ next_task = 1
    /\ org_pc = "collect"
    /\ cache = <<>>
    /\ answered = {}
    /\ failed = {}

InitSan ==
    /\ input \in SanInputs
    /\ output = <<>>
    /\ applied = "none"
    /\ IdleDirectory

\* sanitize_filename(name), and sanitize_filename of its own result
CallSanitize ==
    /\ applied \in {"none", "plex"}
    /\ Len(output) < 2
    /\ applied' = "plex"
    /\ output' = Append(output, sanitize_filename(IF output = <<>> THEN input
                                                  ELSE output[Len(output)]))
    /\ UNCHANGED <<input, dirVars, plexVars, orgVars>>

\* MediaOrganizer.sanitize_filename(name), and the same of its own result
CallOrganizerSanitize ==
    /\ applied \in {"none", "organizer"}
    /\ Len(output) < 2
    /\ applied' = "organizer"
    /\ output' = Append(output, MediaOrganizer_sanitize_filename(
                                    IF output = <<>> THEN input
                                    ELSE output[Len(output)]))
    /\ UNCHANGED <<input, dirVars, plexVars, orgVars>>

NextSan == CallSanitize \/ CallOrganizerSanitize

SpecSan == InitSan /\ [][NextSan]_vars

InitExtract ==
    /\ input \in ExtractInputs
    /\ output = <<>>
    /\ applied = "none"
    /\ IdleDirectory

CallExtract ==
    /\ applied = "none"
    /\ applied' = "extract"
    /\ output' = <<extract_title_year(input)>>
    /\ UNCHANGED <<input, dirVars, plexVars, orgVars>>

NextExtract == CallExtract

SpecExtract == InitExtract /\ [][NextExtract]_vars

-----------------------------------------------------------------------------
(* Claims about the pure functions *)

IllegalChars == {"<", ">", ":", "\"", "/", "\\", "|", "?", "*"}

\* C4: the result of either sanitization holds none of < > : " / \ | ? * and
\* no control character, and is never the empty string.
C4_SanitizedLegalNonEmpty ==
    applied \in {"plex", "organizer"} =>
        \A i \in 1..Len(output) :
            /\ output[i] # <<>>
            /\ Chars(output[i]) \cap (IllegalChars \cup ControlChars) = {}

\* C5: sanitization is idempotent, for the sanitizer's function and for the
\* renamer's: sanitizing a sanitized name returns the same name.
C5_SanitizeIdempotent ==
    (applied \in {"plex", "organizer"} /\ Len(output) = 2) => output[2] = output[1]

ShowSeasonRemoved == <<"S","h","o","w"," ","S","e","a","s","o","n"," ","1",
                       ".","m","p","4">>

ShowSeasonReplaced == <<"S","h","o","w","_"," ","S","e","a","s","o","n"," ","1","_",
                        ".","m","p","4">>

\* C7 as stated: the sanitizer removes each illegal character, so its output
\* (when it is not the placeholder) holds only characters of the input in their
\* order, and "Show: Season 1?.mp4" yields "Show Season 1.mp4".
C7_IllegalCharsRemoved ==
    (applied = "plex" /\ Len(output) >= 1) =>
        /\ output[1] = unnamed_file \/ IsSubseq(output[1], input)
        /\ input = ShowSeason => output[1] = ShowSeasonRemoved

IsInfix(p, s) == \E i \in 0..(Len(s) - Len(p)) : SubSeq(s, i + 1, i + Len(p)) = p

Ordinary(c) == c \notin IllegalChars \cup ControlChars \cup {"_", " ", "."}

\* C7 amended: the sanitizer puts an underscore in the place of each illegal
\* character: the output is the placeholder or the input with its illegal
\* characters turned into "_" and some characters dropped, an illegal character
\* between two ordinary characters shows as "_" between them, and
\* "Show: Season 1?.mp4" yields "Show_ Season 1_.mp4".
C7_IllegalCharsReplaced ==
    (applied = "plex" /\ Len(output) >= 1) =>
        /\ \/ output[1] = unnamed_file
           \/ IsSubseq(output[1], Replace(input, IllegalChars \cup ControlChars, "_"))
        /\ \A i \in 2..(Len(input) - 1) :
               ( /\ input[i] \in IllegalChars \cup ControlChars
                 /\ Ordinary(input[i-1])
                 /\ Ordinary(input[i+1]) )
               => IsInfix(<<input[i-1], "_", input[i+1]>>, output[1])
        /\ input = ShowSeason => output[1] = ShowSeasonReplaced

C7_Witness ==
    /\ applied = "plex"
    /\ Len(output) >= 1
    /\ input = ShowSeason
    /\ output[1] = ShowSeasonReplaced

\* The year tokens the claim speaks of: (YYYY), .YYYY. or [YYYY] in the file
\* name, YYYY in 1900..2099; the closing dot may be the dot of the extension.
ClaimYearTokenAt(f, i) ==
    /\ i + 5 <= Len(f)
    /\ <<f[i], f[i+5]>> \in {<<"(", ")">>, <<".", ".">>, <<"[", "]">>}
    /\ \A k \in 1..4 : f[i+k] \in Digits
    /\ YearValue(f, i) \in 1900..2099

ClaimYearTokens(f) == {i \in 1..Len(f) : ClaimYearTokenAt(f, i)}

ClaimFirstToken(f) ==
    CHOOSE i \in ClaimYearTokens(f) : \A j \in ClaimYearTokens(f) : i <= j

\* The stem without the first token and its two delimiters, dots turned into
\* spaces, trimmed.
ClaimTitle(f) ==
    LET stem == Stem(f)
        m    == ClaimFirstToken(f)
        kept == [i \in 1..Len(stem) |-> IF i \in m..(m + 5) THEN "" ELSE stem[i]]
    IN  Strip(Replace(Remove(kept, {""}), {"."}, " "), {" "})

\* C6: for a file name holding a year token (YYYY), .YYYY. or [YYYY],
\* extract_title_year returns the year of the first such token and the stem
\* without that token and its delimiters, dots replaced by spaces, trimmed.
C6_YearAndTitleExtracted ==
    (applied = "extract" /\ ClaimYearTokens(input) # {}) =>
        output[1] = <<ClaimTitle(input), Some(YearValue(input, ClaimFirstToken(input)))>>

-----------------------------------------------------------------------------
(* The directory both tools work on *)

MaxFiles == 3

\* what fs holds for a name that is a directory
DirMark == <<"<dir>">>

Exists(f, name) == name \in DOMAIN f

IsFile(f, name) == IF name \in DOMAIN f THEN f[name] # DirMark ELSE FALSE

\* os.rename / Path.rename once it succeeds: dst now names what src named
Rename(f, src, dst) ==
    [n \in (DOMAIN f \ {src}) \cup {dst} |-> IF n = dst THEN f[src] ELSE f[n]]

\* A rename onto a directory fails on every platform; onto a file it replaces
\* the file (POSIX) or raises FileExistsError (Windows).
RenameCanSucceed(f, src, dst) == IF dst \in DOMAIN f THEN f[dst] # DirMark ELSE TRUE

Perms(S) == {p \in [1..Cardinality(S) -> S] : \A i, j \in DOMAIN p : p[i] = p[j] => i = j}

Directories(names, maybeDir) ==
    {[n \in S |-> IF n \in D THEN DirMark ELSE n] :
        S \in {T \in SUBSET names : T # {} /\ Cardinality(T) <= MaxFiles},
        D \in SUBSET maybeDir}

-----------------------------------------------------------------------------
(* plex_converter.py: process_file, process_directory *)

PlexNames == { <<"a", "?">>, <<"a">>, <<"a", ":">>, <<"b", ".">> }

LogEntry(name, target, existed, renamed, ret, error) ==
    [name |-> name, target |-> target, target_existed |-> existed,
     renamed |-> renamed, ret |-> ret, error |-> error]

PlexCurrent == entries[idx + 1]

PlexInLoop == tool = "plex" /\ plex_pc = "loop" /\ idx < Len(entries)

\* rglob/iterdir or is_file raises PermissionError or OSError inside the try
PlexTraversalError ==
    /\ PlexInLoop
    /\ error_count' = error_count + 1
    /\ plex_pc' = "returned"
    /\ UNCHANGED <<pureVars, dirVars, entries, idx, processed_count, plex_log, orgVars>>

\* is_file() is False
PlexSkipDirectory ==
    /\ PlexInLoop
    /\ ~IsFile(fs, PlexCurrent)
    /\ idx' = idx + 1
    /\ UNCHANGED <<pureVars, dirVars, entries, processed_count, error_count,
                   plex_pc, plex_log, orgVars>>

\* process_file: original_name == sanitized_name, return False
PlexKeepName ==
    /\ PlexInLoop
    /\ IsFile(fs, PlexCurrent)
    /\ sanitize_filename(PlexCurrent) = PlexCurrent
    /\ idx' = idx + 1
    /\ plex_log' = Append(plex_log,
           LogEntry(PlexCurrent, PlexCurrent, FALSE, FALSE, FALSE, FALSE))
    /\ UNCHANGED <<pureVars, dirVars, entries, processed_count, error_count,
                   plex_pc, orgVars>>

PlexDryRun_renaming ==
    /\ PlexInLoop
    /\ IsFile(fs, PlexCurrent)
    /\ sanitize_filename(PlexCurrent) # PlexCurrent
    /\ dry_run
    /\ LET target == sanitize_filename(PlexCurrent)
       IN  /\ RenameCanSucceed(fs, PlexCurrent, target)
           /\ fs' = Rename(fs, PlexCurrent, target)
           /\ plex_log' = Append(plex_log,
                  LogEntry(PlexCurrent, target, Exists(fs, target), TRUE, TRUE, FALSE))
    /\ idx' = idx + 1
    /\ processed_count' = processed_count + 1
    /\ UNCHANGED <<pureVars, tool, dry_run, fs0, entries, error_count, plex_pc, orgVars>>

\* process_file: dry_run, print "Would rename", return True
PlexDryRun ==
    /\ PlexInLoop
    /\ IsFile(fs, PlexCurrent)
    /\ sanitize_filename(PlexCurrent) # PlexCurrent
    /\ dry_run
    /\ LET target == sanitize_filename(PlexCurrent)
       IN  plex_log' = Append(plex_log,
               LogEntry(PlexCurrent, target, Exists(fs, target), FALSE, TRUE, FALSE))
    /\ idx' = idx + 1
    /\ processed_count' = processed_count + 1
    /\ UNCHANGED <<pureVars, dirVars, entries, error_count, plex_pc, orgVars>>

\* process_file: os.rename succeeds, return True
PlexRename ==
    /\ PlexInLoop
    /\ IsFile(fs, PlexCurrent)
    /\ sanitize_filename(PlexCurrent) # PlexCurrent
    /\ ~dry_run
    /\ LET target == sanitize_filename(PlexCurrent)
       IN  /\ RenameCanSucceed(fs, PlexCurrent, target)
           /\ fs' = Rename(fs, PlexCurrent, target)
           /\ plex_log' = Append(plex_log,
                  LogEntry(PlexCurrent, target, Exists(fs, target), TRUE, TRUE, FALSE))
    /\ idx' = idx + 1
    /\ processed_count' = processed_count + 1
    /\ UNCHANGED <<pureVars, tool, dry_run, fs0, entries, error_count, plex_pc, orgVars>>

\* process_file: os.rename raises OSError, caught, return False
PlexRenameError ==
    /\ PlexInLoop
    /\ IsFile(fs, PlexCurrent)
    /\ sanitize_filename(PlexCurrent) # PlexCurrent
    /\ ~dry_run
    /\ LET target == sanitize_filename(PlexCurrent)
       IN  plex_log' = Append(plex_log,
               LogEntry(PlexCurrent, target, Exists(fs, target), FALSE, FALSE, TRUE))
    /\ idx' = idx + 1
    /\ UNCHANGED <<pureVars, dirVars, entries, processed_count, error_count,
                   plex_pc, orgVars>>

\* the for loop is exhausted: return processed_count, error_count
PlexReturn ==
    /\ tool = "plex"
    /\ plex_pc = "loop"
    /\ idx = Len(entries)
    /\ plex_pc' = "returned"
    /\ UNCHANGED <<pureVars, dirVars, entries, idx, processed_count, error_count,
                   plex_log, orgVars>>

NextPlex ==
    \/ PlexTraversalError
    \/ PlexSkipDirectory
    \/ PlexKeepName
    \/ PlexDryRun
    \/ PlexRename
    \/ PlexRenameError
    \/ PlexReturn

IdleOrganizer ==
    /\ files = <<>>
    /\ task = <<>>
    /\ next_task = 1
    /\ org_pc = "collect"
    /\ cache = <<>>
    /\ answered = {}
    /\ failed = {}

IdlePure == input = <<>> /\ output = <<>> /\ applied = "none"

InitPlex ==
    /\ tool = "plex"
    /\ dry_run \in BOOLEAN
    /\ fs \in Directories(PlexNames, {<<"a">>})
    /\ fs0 = fs
    /\ entries \in Perms(DOMAIN fs)
    /\ idx = 0
    /\ processed_count = 0
    /\ error_count = 0
    /\ plex_pc = "loop"
    /\ plex_log = <<>>
    /\ IdleOrganizer
    /\ IdlePure

-----------------------------------------------------------------------------
(* create_is.py: the lookups and their cache *)

DigitChar(d) ==
    CASE d = 0 -> "0" [] d = 1 -> "1" [] d = 2 -> "2" [] d = 3 -> "3"
      [] d = 4 -> "4" [] d = 5 -> "5" [] d = 6 -> "6" [] d = 7 -> "7"
      [] d = 8 -> "8" [] d = 9 -> "9"

\* str(n) of a natural number
RECURSIVE NatStr(_)
NatStr(n) == IF n < 10 THEN <<DigitChar(n)>> ELSE Append(NatStr(n \div 10), DigitChar(n % 10))

\* str(year) inside the f-string
YearStr(year) == IF year = None THEN <<"N", "o", "n", "e">> ELSE NatStr(year[1])

cache_key_without_year(kind, title, year) ==
    CASE kind = "movie" -> <<"m","o","v","i","e","_">> \o title
      [] kind = "tv"    -> <<"t","v","_">> \o title
      [] kind = "anime" -> <<"a","n","i","m","e","_">> \o title

\* f"movie_{title}_{year}", f"tv_{title}_{year}", f"anime_{title}"
cache_key(kind, title, year) ==
    CASE kind = "movie" -> <<"m","o","v","i","e","_">> \o title \o <<"_">> \o YearStr(year)
      [] kind = "tv"    -> <<"t","v","_">> \o title \o <<"_">> \o YearStr(year)
      [] kind = "anime" -> <<"a","n","i","m","e","_">> \o title

\* What a provider can put first in its result list
MovieResults ==
    { [title |-> <<"M">>,
       release_date |-> <<"1","9","9","9","-","0","3","-","3","1">>],
      [title |-> <<"M", ":">>] }

TVResults == { [name |-> <<"T">>] }

AnimeResults == { [id |-> <<"7">>] }

ProviderResults(kind) ==
    CASE kind = "movie" -> MovieResults
      [] kind = "tv"    -> TVResults
      [] kind = "anime" -> AnimeResults

\* One call of process_file (organizer) or of a search function (lookup)
NewTask(name) ==
    [name |-> name, pc |-> "queued", title |-> <<>>, year |-> None,
     kind |-> "none", call_pc |-> "idle", hit |-> FALSE, called |-> FALSE,
     resp |-> "none", val |-> None, after_failure |-> FALSE, wrote |-> FALSE,
     lookups |-> <<>>, movie |-> None, movie_resp |-> "none", tv |-> None,
     new_name |-> <<>>,
     target_existed |-> FALSE, renamed |-> FALSE, renamed_over |-> FALSE,
     ret |-> "none"]

\* A search function is entered
Enter(t, kind, title, year) ==
    [t EXCEPT !.kind = kind, !.title = title, !.year = year, !.call_pc = "check",
              !.hit = FALSE, !.called = FALSE, !.resp = "none", !.val = None,
              !.after_failure = FALSE, !.wrote = FALSE,
              !.lookups = Append(t.lookups, kind)]

Searching(i) ==
    /\ tool \in {"organizer", "lookup"}
    /\ i \in DOMAIN task

\* if cache_key in self.cache: return self.cache[cache_key]
SearchCheck(i) ==
    /\ Searching(i)
    /\ task[i].call_pc = "check"
    /\ LET t == task[i]
           k == cache_key(t.kind, t.title, t.year)
       IN  task' = [task EXCEPT ![i] =
               IF k \in DOMAIN cache
               THEN [t EXCEPT !.hit = TRUE, !.val = cache[k], !.call_pc = "return"]
               ELSE [t EXCEPT !.call_pc = "request", !.after_failure = (k \in failed)]]
    /\ UNCHANGED <<pureVars, dirVars, plexVars, files, next_task, org_pc, cache,
                   answered, failed>>

\* the request raises (transport, HTTP status, JSON): logged, return None
SearchFails(i) ==
    /\ Searching(i)
    /\ task[i].call_pc = "request"
    /\ LET t == task[i]
       IN  /\ task' = [task EXCEPT ![i] =
                  [t EXCEPT !.called = TRUE, !.resp = "fail", !.val = None,
                            !.call_pc = "return"]]
           /\ failed' = failed \cup {cache_key(t.kind, t.title, t.year)}
    /\ UNCHANGED <<pureVars, dirVars, plexVars, files, next_task, org_pc, cache, answered>>

\* the provider answers with an empty result list: return None
SearchEmpty(i) ==
    /\ Searching(i)
    /\ task[i].call_pc = "request"
    /\ LET t == task[i]
       IN  /\ task' = [task EXCEPT ![i] =
                  [t EXCEPT !.called = TRUE, !.resp = "empty", !.val = None,
                            !.call_pc = "return"]]
           /\ failed' = failed \cup {cache_key(t.kind, t.title, t.year)}
    /\ UNCHANGED <<pureVars, dirVars, plexVars, files, next_task, org_pc, cache, answered>>

CachePut(c, k, v) == [x \in DOMAIN c \cup {k} |-> IF x = k THEN v ELSE c[x]]

\* the provider answers with results: cache the first and return it
SearchFound(i) ==
    /\ Searching(i)
    /\ task[i].call_pc = "request"
    /\ \E r \in ProviderResults(task[i].kind) :
         LET t == task[i]
             k == cache_key(t.kind, t.title, t.year)
         IN  /\ answered' = answered \cup {<<t.kind, t.title, t.year, r>>}
             /\ cache' = CachePut(cache, k, r)
             /\ task' = [task EXCEPT ![i] =
                    [t EXCEPT !.called = TRUE, !.resp = "found", !.val = r,
                              !.wrote = (cache' # cache), !.call_pc = "return"]]
    /\ UNCHANGED <<pureVars, dirVars, plexVars, files, next_task, org_pc, failed>>

-----------------------------------------------------------------------------
(* Callers of the search functions other than process_file *)

MaxLookups == 3

LookupTitles == { <<"x">> }

LookupYears == { None, Some(1999) }

Queries ==
    {<<k, t, y>> : k \in {"movie", "tv"}, t \in LookupTitles, y \in LookupYears}
        \cup {<<"anime", t, None>> : t \in LookupTitles}

\* search_movie(title, year), search_tv_show(title, year) or search_anime(title)
LookupCall(i) ==
    /\ tool = "lookup"
    /\ i = next_task
    /\ i \in DOMAIN task
    /\ \E q \in Queries :
         task' = [task EXCEPT ![i] = [Enter(task[i], q[1], q[2], q[3]) EXCEPT !.pc = "lookup"]]
    /\ next_task' = next_task + 1
    /\ UNCHANGED <<pureVars, dirVars, plexVars, files, org_pc, cache, answered, failed>>

NextLookup ==
    \/ \E i \in 1..MaxLookups : LookupCall(i)
    \/ \E i \in 1..MaxLookups : SearchCheck(i)
    \/ \E i \in 1..MaxLookups : SearchFails(i)
    \/ \E i \in 1..MaxLookups : SearchEmpty(i)
    \/ \E i \in 1..MaxLookups : SearchFound(i)

IdlePlex ==
    /\ entries = <<>>
    /\ idx = 0
    /\ processed_count = 0
    /\ error_count = 0
    /\ plex_pc = "returned"
    /\ plex_log = <<>>

InitLookup ==
    /\ tool = "lookup"
    /\ dry_run = FALSE
    /\ fs = <<>>
    /\ fs0 = <<>>
    /\ files = <<>>
    /\ task = [i \in 1..MaxLookups |-> NewTask(<<>>)]
    /\ next_task = 1
    /\ org_pc = "pool"
    /\ cache = <<>>
    /\ answered = {}
    /\ failed = {}
    /\ IdlePlex
    /\ IdlePure

SpecLookup == InitLookup /\ [][NextLookup]_vars

-----------------------------------------------------------------------------
(* create_is.py: format_movie_filename, process_file, process_directory *)

max_workers == 4

exts == { <<".","m","p","4">>, <<".","m","k","v">>, <<".","a","v","i">>, <<".","m","o","v">> }

\* str.lower(), on the letters that occur in this model's file names
LowerChar(c) ==
    CASE c = "M" -> "m" [] c = "K" -> "k" [] c = "V" -> "v" [] c = "T" -> "t"
      [] c = "S" -> "s" [] c = "E" -> "e" [] OTHER -> c

Lower(s) == [i \in 1..Len(s) |-> LowerChar(s[i])]

\* dict.get(field, default)
Get(d, field, default) == IF field \in DOMAIN d THEN d[field] ELSE default

Take(s, n) == SubSeq(s, 1, IF Len(s) < n THEN Len(s) ELSE n)

format_movie_filename(movie_info, original_ext) ==
    LET title == Get(movie_info, "title", <<"U","n","k","n","o","w","n">>)
        year  == Take(Get(movie_info, "release_date", <<"0","0","0","0">>), 4)
        safe_title == MediaOrganizer_sanitize_filename(title)
    IN  safe_title \o <<" ", "(">> \o year \o <<")">> \o original_ext

\* f"{self.sanitize_filename(tv['name'])} - S01E01{ext}"
format_tv_filename(tv, ext) ==
    MediaOrganizer_sanitize_filename(tv.name)
        \o <<" ","-"," ","S","0","1","E","0","1">> \o ext

OrgNames ==
    { <<"x",".","m","k","v">>,
      <<"y",".","m","k","v">>,
      <<"M"," ","(","1","9","9","9",")",".","m","k","v">>,
      <<"n",".","t","x","t">> }

\* f.is_file() and f.suffix.lower() in exts
IsMedia(f, name) == IsFile(f, name) /\ Lower(Suffix(name)) \in exts

Finish(t, ret) == [t EXCEPT !.pc = "done", !.ret = ret]

\* process_directory: the glob loop fills files, the pool is entered
OrgCollect ==
    /\ tool = "organizer"
    /\ org_pc = "collect"
    /\ files' \in Perms({n \in DOMAIN fs : IsMedia(fs, n)})
    /\ task' = [i \in 1..Len(files') |-> NewTask(files'[i])]
    /\ org_pc' = "pool"
    /\ UNCHANGED <<pureVars, dirVars, plexVars, next_task, cache, answered, failed>>

\* process_directory: glob or is_file raises; nothing catches it
OrgCollectError ==
    /\ tool = "organizer"
    /\ org_pc = "collect"
    /\ org_pc' = "crashed"
    /\ UNCHANGED <<pureVars, dirVars, plexVars, files, task, next_task, cache,
                   answered, failed>>

Running == {i \in DOMAIN task : task[i].pc \notin {"queued", "done"}}

InPool(i) == tool = "organizer" /\ org_pc = "pool" /\ i \in DOMAIN task

\* a free worker takes the next file: process_file up to the call of search_movie
OrgStart(i) ==
    /\ InPool(i)
    /\ i = next_task
    /\ Cardinality(Running) < max_workers
    /\ LET ty == extract_title_year(task[i].name)
       IN  task' = [task EXCEPT ![i] =
               [Enter(task[i], "movie", ty[1], ty[2]) EXCEPT !.pc = "movie"]]
    /\ next_task' = next_task + 1
    /\ UNCHANGED <<pureVars, dirVars, plexVars, files, org_pc, cache, answered, failed>>

OrgAfterMovie_always_tv(i) ==
    /\ InPool(i)
    /\ task[i].pc = "movie"
    /\ task[i].call_pc = "return"
    /\ LET t == [task[i] EXCEPT !.movie = task[i].val, !.movie_resp = task[i].resp]
       IN  task' = [task EXCEPT ![i] =
               [Enter(t, "tv", t.title, t.year) EXCEPT !.pc = "tv"]]
    /\ UNCHANGED <<pureVars, dirVars, plexVars, files, next_task, org_pc, cache,
                   answered, failed>>

\* movie = self.search_movie(title, year); if movie: ... else: search_tv_show
OrgAfterMovie(i) ==
    /\ InPool(i)
    /\ task[i].pc = "movie"
    /\ task[i].call_pc = "return"
    /\ LET t == [task[i] EXCEPT !.movie = task[i].val, !.movie_resp = task[i].resp]
       IN  task' = [task EXCEPT ![i] =
               IF t.movie # None
               THEN [t EXCEPT !.pc = "named", !.call_pc = "idle",
                              !.new_name = format_movie_filename(t.movie, Suffix(t.name))]
               ELSE [Enter(t, "tv", t.title, t.year) EXCEPT !.pc = "tv"]]
    /\ UNCHANGED <<pureVars, dirVars, plexVars, files, next_task, org_pc, cache,
                   answered, failed>>

\* tv = self.search_tv_show(title, year); if tv: ... else: return False
OrgAfterTv(i) ==
    /\ InPool(i)
    /\ task[i].pc = "tv"
    /\ task[i].call_pc = "return"
    /\ LET t == [task[i] EXCEPT !.tv = task[i].val, !.call_pc = "idle"]
       IN  task' = [task EXCEPT ![i] =
               IF t.tv # None
               THEN [t EXCEPT !.pc = "named",
                              !.new_name = format_tv_filename(t.tv, Suffix(t.name))]
               ELSE Finish(t, FALSE)]
    /\ UNCHANGED <<pureVars, dirVars, plexVars, files, next_task, org_pc, cache,
                   answered, failed>>

\* if dry_run: print "[DRY RUN] Rename", return True
OrgDryRun(i) ==
    /\ InPool(i)
    /\ task[i].pc = "named"
    /\ dry_run
    /\ task' = [task EXCEPT ![i] = Finish(task[i], TRUE)]
    /\ UNCHANGED <<pureVars, dirVars, plexVars, files, next_task, org_pc, cache,
                   answered, failed>>

\* if not new_path.exists(): ... else fall through to return False
OrgExistsCheck(i) ==
    /\ InPool(i)
    /\ task[i].pc = "named"
    /\ ~dry_run
    /\ task' = [task EXCEPT ![i] =
           IF Exists(fs, task[i].new_name)
           THEN Finish([task[i] EXCEPT !.target_existed = TRUE], FALSE)
           ELSE [task[i] EXCEPT !.pc = "rename"]]
    /\ UNCHANGED <<pureVars, dirVars, plexVars, files, next_task, org_pc, cache,
                   answered, failed>>

\* file_path.rename(new_path) succeeds: return True
OrgRename(i) ==
    /\ InPool(i)
    /\ task[i].pc = "rename"
    /\ RenameCanSucceed(fs, task[i].name, task[i].new_name)
    /\ fs' = Rename(fs, task[i].name, task[i].new_name)
    /\ task' = [task EXCEPT ![i] =
           Finish([task[i] EXCEPT !.renamed = TRUE,
                                  !.renamed_over = Exists(fs, task[i].new_name)], TRUE)]
    /\ UNCHANGED <<pureVars, tool, dry_run, fs0, plexVars, files, next_task, org_pc,
                   cache, answered, failed>>

\* file_path.rename(new_path) raises: except Exception, return False
OrgRenameError(i) ==
    /\ InPool(i)
    /\ task[i].pc = "rename"
    /\ task' = [task EXCEPT ![i] = Finish(task[i], FALSE)]
    /\ UNCHANGED <<pureVars, dirVars, plexVars, files, next_task, org_pc, cache,
                   answered, failed>>

NextOrganizer ==
    \/ OrgCollect
    \/ OrgCollectError
    \/ \E i \in 1..MaxFiles : OrgStart(i)
    \/ \E i \in 1..MaxFiles : SearchCheck(i)
    \/ \E i \in 1..MaxFiles : SearchFails(i)
    \/ \E i \in 1..MaxFiles : SearchEmpty(i)
    \/ \E i \in 1..MaxFiles : SearchFound(i)
    \/ \E i \in 1..MaxFiles : OrgAfterMovie(i)
    \/ \E i \in 1..MaxFiles : OrgAfterTv(i)
    \/ \E i \in 1..MaxFiles : OrgDryRun(i)
    \/ \E i \in 1..MaxFiles : OrgExistsCheck(i)
    \/ \E i \in 1..MaxFiles : OrgRename(i)
    \/ \E i \in 1..MaxFiles : OrgRenameError(i)

InitOrganizer ==
    /\ tool = "organizer"
    /\ dry_run \in BOOLEAN
    /\ fs \in Directories(OrgNames, {})
    /\ fs0 = fs
    /\ IdleOrganizer
    /\ IdlePlex
    /\ IdlePure

\* One run of one of the two tools on one directory
InitTools == InitPlex \/ InitOrganizer

NextTools == NextPlex \/ NextOrganizer

SpecTools == InitTools /\ [][NextTools]_vars

-----------------------------------------------------------------------------
(* Claims about the two tools *)

\* C1: in dry-run mode neither tool changes the directory: every name that
\* was there is still there, naming the same file, and no name was added.
C1_DryRunLeavesDirectory ==
    (tool \in {"plex", "organizer"} /\ dry_run) => fs = fs0

C1_Witness ==
    /\ tool = "organizer"
    /\ dry_run
    /\ \E i \in DOMAIN task :
         /\ task[i].pc = "done"
         /\ task[i].ret = TRUE
         /\ task[i].new_name # task[i].name

\* C2: in apply mode, in both tools, a file whose target name already exists
\* keeps its name, the existing file is not replaced, and the call reports
\* the file as skipped (returns False).
C2_ExistingTargetSkipped ==
    ~dry_run =>
        /\ \A k \in DOMAIN plex_log :
               plex_log[k].target_existed =>
                   ~plex_log[k].renamed /\ plex_log[k].ret = FALSE
        /\ tool = "organizer" =>
               \A i \in DOMAIN task :
                   (task[i].pc = "done" /\ task[i].target_existed) =>
                       ~task[i].renamed /\ task[i].ret = FALSE

\* C3: in the renamer's apply mode, whatever the interleaving of the workers,
\* no rename runs while its target exists, so no file is replaced and the
\* directory holds as many files as at the start.
C3_NoRenameOntoExisting ==
    (tool = "organizer" /\ ~dry_run) =>
        /\ \A i \in DOMAIN task : ~task[i].renamed_over
        /\ Cardinality(DOMAIN fs) = Cardinality(DOMAIN fs0)

\* C8: a failure on one file does not stop the batch: when the sanitizer's
\* process_directory returns, every entry other than one that raised was
\* handled; the renamer's process_directory handles the other media files
\* although enumerating one of them raised.
C8_FailuresDoNotStopBatch ==
    /\ (tool = "plex" /\ plex_pc = "returned") =>
           idx >= Len(entries) - error_count
    /\ (tool = "organizer" /\ org_pc = "crashed") =>
           Cardinality({n \in DOMAIN fs0 : IsMedia(fs0, n)}) <= 1

C9_CacheHoldsProviderResults ==
    /\ \A k \in DOMAIN cache :
           \E q \in Queries : cache_key(q[1], q[2], q[3]) = k
    /\ \A q \in Queries :
           LET k == cache_key(q[1], q[2], q[3])
           IN  k \in DOMAIN cache =>
                   /\ cache[k] # None
                   /\ <<q[1], q[2], q[3], cache[k]>> \in answered
    /\ \A i \in DOMAIN task :
           LET t == task[i]
           IN  t.call_pc = "return" =>
                   /\ t.hit => /\ ~t.called
                               /\ ~t.wrote
                               /\ <<t.kind, t.title, t.year, t.val>> \in answered
                   /\ ~t.hit => t.called
                   /\ t.resp \in {"fail", "empty"} => t.val = None /\ ~t.wrote
                   /\ t.resp = "found" =>
                          <<t.kind, t.title, t.year, t.val>> \in answered

C9_Witness ==
    /\ tool = "lookup"
    /\ \E i, j, l \in DOMAIN task :
         /\ task[i].call_pc = "return" /\ task[i].resp \in {"fail", "empty"}
         /\ task[j].call_pc = "return" /\ task[j].after_failure
         /\ task[j].resp = "found" /\ task[j].wrote
         /\ task[j].kind = task[i].kind /\ task[j].title = task[i].title
         /\ task[j].year = task[i].year
         /\ task[l].call_pc = "return" /\ task[l].hit
         /\ task[l].val = task[j].val

====
